---- MODULE Spec2Model ----
(***************************************************************************)
(* NextWorth market-data caching and deduplication layer.                  *)
(*                                                                         *)
(* The model covers the price-history pipeline (marketDataService.js:      *)
(* getAssetHistory / fetchAssetHistoryInternal / formatResponse), the      *)
(* Yahoo adapter (yahooFinanceService.js: getHistoricalData), the          *)
(* asset_price_history table with its constraints (app.js) and the HTTP    *)
(* status mapping of the market controller.                                *)
(*                                                                         *)
(* Every await of the source is one step: the awaited operation executes   *)
(* and the continuation up to the next await runs.  The synchronous        *)
(* prefix of an async function (up to its first await) belongs to the      *)
(* step of its caller, as in JavaScript.                                   *)
(*                                                                         *)
(* Dates are integers 32 * month + day, so that DATE comparison is integer *)
(* comparison and Date.setMonth(getMonth() - n) is a subtraction of 32*n.  *)
(* Prices and volumes are integers; timestamps are seconds.                *)
(***************************************************************************)
EXTENDS Integers, Sequences, FiniteSets, TLC

VARIABLES
  now,                  \* wall clock / NOW() of the store, in seconds
  adapterMocked,        \* TRUE when getHistoricalData is replaced by the test double
  upstream,             \* what the upstream services hold and how they behave during a run
  assets,               \* table assets: sequence of rows, id = position
  asset_price_history,  \* table asset_price_history: set of rows
  inflightRequests,     \* marketDataService.js: Map cacheKey -> promise (id of the owning call)
  req,                  \* the request of each call
  hpc,                  \* position of each getAssetHistory call
  hargs,                \* the arguments of each getAssetHistory call
  awaiting,             \* the promise a getAssetHistory call awaits (id of the owning call, 0: none)
  hresult,              \* what each getAssetHistory call returned or threw
  comp,                 \* frame of each fetchAssetHistoryInternal invocation (by owning call)
  yahooCalls,           \* number of getHistoricalData invocations made by each invocation
  asset_predictions,    \* table asset_predictions: set of rows
  inflightPredictions,  \* predictionService.js: Map cacheKey -> promise (id of the owning call)
  ppc,                  \* position of each getAssetPrediction call
  pargs,                \* the arguments of each getAssetPrediction call
  pawaiting,            \* the promise a getAssetPrediction call awaits
  presult,              \* what each getAssetPrediction call returned
  pcomp,                \* frame of each fetchPredictionInternal invocation (by owning call)
  mlCalls               \* number of chronosService.getPrediction invocations made by each invocation

histVars == <<assets, asset_price_history, inflightRequests, hpc, hargs, awaiting,
              hresult, comp, yahooCalls>>

predVars == <<asset_predictions, inflightPredictions, ppc, pargs, pawaiting,
              presult, pcomp, mlCalls>>

vars == <<now, adapterMocked, upstream, req, histVars, predVars>>

---------------------------------------------------------------------------
(* Bounds of the model *)

NumCalls == 2

MaxTicks == 1

Calls == 1..NumCalls

---------------------------------------------------------------------------
(* Dates *)

Date(m, d) == 32 * m + d

\* the month and the day of the month of "new Date()" during a run
ThisMonth == 4 * 25

Today == Date(ThisMonth, 15)

\* startDate.setMonth(startDate.getMonth() - months)
startDateOf(months) == Today - 32 * months

---------------------------------------------------------------------------
(* Strings *)

Symbols == {"AAPL", "aapl", "BTC-USD"}

toUpperCase(s) == CASE s = "aapl" -> "AAPL" [] OTHER -> s

inferAssetType(symbol) ==
  LET upper == toUpperCase(symbol)
  IN CASE upper = "BTC-USD" -> "crypto"
       [] OTHER -> "stocks"

NullNum == -1

---------------------------------------------------------------------------
(* Controller tables *)

validIntervals == {"1d", "1wk", "1mo"}

\* validRanges "6m", "12m", "24m", "60m", by the number of months of rangeToMonths;
\* any other range is written as a number of months outside this set
validRanges == {6, 12, 24, 60}

\* Validations that lack the rule for the daily interval.
validWithoutDailyRule(r) ==
  r.symbol # "" /\ r.months \in {6, 12, 24, 60} /\ r.interval \in {"1d", "1wk", "1mo"}

\* The validations of the controller, in order.
validHistoryRequest(r) ==
  /\ r.symbol # ""
  /\ r.months \in validRanges
  /\ r.interval \in validIntervals
  /\ ~(r.interval = "1d" /\ r.months # 6)

intervalToTTL(interval) ==
  CASE interval = "1mo" -> 3600
    [] interval = "1wk" -> 1800
    [] interval = "1d" -> 900

---------------------------------------------------------------------------
(* marketDataService.js: pure helpers *)

calculateExpectedPoints(months, interval) ==
  CASE interval = "1d" -> months * 21
    [] interval = "1wk" -> (months * 43) \div 10
    [] interval = "1mo" -> months
    [] OTHER -> months

\* A key that leaves the interval out.
getCacheKeyNoInterval(symbol, months, interval) == <<toUpperCase(symbol), months, "">>

\* A key that keeps the symbol as the caller typed it.
getCacheKeyAsTyped(symbol, months, interval) == <<symbol, months, interval>>

getCacheKey(symbol, months, interval) == <<toUpperCase(symbol), months, interval>>

\* A threshold that the boundary count does not meet.
hasSufficientDataStrict(n, expectedPoints) == 5 * n > 4 * expectedPoints

\* rows.length >= expectedPoints * 0.8 (the double product equals 4e/5 whenever
\* that is an integer, so the comparison is the one of the rationals)
hasSufficientData(n, expectedPoints) == 5 * n >= 4 * expectedPoints

MinBy(S, f(_)) == CHOOSE x \in S : \A y \in S : f(x) <= f(y)

RowMonth(r) == r.month

\* ORDER BY month ASC
RECURSIVE OrderByMonth(_)
OrderByMonth(S) ==
  IF S = {} THEN <<>>
  ELSE LET r == MinBy(S, RowMonth) IN <<r>> \o OrderByMonth(S \ {r})

\* series.sort((a, b) => a.timestamp - b.timestamp): stable insertion
RECURSIVE InsertSorted(_, _)
InsertSorted(s, p) ==
  IF s = <<>> THEN <<p>>
  ELSE IF s[Len(s)].timestamp <= p.timestamp THEN Append(s, p)
  ELSE Append(InsertSorted(SubSeq(s, 1, Len(s) - 1), p), s[Len(s)])

RECURSIVE SortByTimestamp(_)
SortByTimestamp(s) ==
  IF s = <<>> THEN <<>>
  ELSE InsertSorted(SortByTimestamp(SubSeq(s, 1, Len(s) - 1)), s[Len(s)])

seriesPoint(row) ==
  [date |-> row.month, timestamp |-> row.month, close |-> row.close,
   open |-> row.open, high |-> row.high, low |-> row.low,
   volume |-> row.volume, currency |-> row.currency]

formatResponse(asset, rows, months, interval, source, ttl, warning, clock) ==
  LET series == SortByTimestamp([i \in 1..Len(rows) |-> seriesPoint(rows[i])])
      last == IF series = <<>> THEN NullNum ELSE series[Len(series)].close
  IN [symbol |-> asset.symbol,
      assetType |-> asset.asset_type,
      currency |-> IF series = <<>> THEN asset.currency ELSE series[1].currency,
      \* series[series.length - 1]?.close || null : a close of 0 is falsy
      currentPrice |-> IF last = 0 THEN NullNum ELSE last,
      range |-> months,
      interval |-> interval,
      dataPoints |-> Len(series),
      series |-> series,
      source |-> source,
      cachedAt |-> IF rows = <<>> THEN clock ELSE rows[1].fetched_at,
      ttl |-> ttl,
      warning |-> warning]

---------------------------------------------------------------------------
(* app.js: table asset_price_history *)

allowedCurrencies == {"USD", "EUR"}

\* The CHECK constraint a row violates ("" when none).  PostgreSQL tests the
\* CHECK constraints of a table in alphabetical order of their names and
\* reports the first that fails.
violatedConstraint(p) ==
  CASE p.close < 0 -> "asset_price_history_close_chk"
    [] p.currency \notin allowedCurrencies -> "asset_price_history_currency_chk"
    [] p.high < 0 -> "asset_price_history_high_chk"
    [] p.low < 0 -> "asset_price_history_low_chk"
    [] ~(p.low <= p.high /\ p.open >= p.low /\ p.open <= p.high
         /\ p.close >= p.low /\ p.close <= p.high) -> "asset_price_history_ohlc_chk"
    [] p.open < 0 -> "asset_price_history_open_chk"
    [] p.volume < 0 -> "asset_price_history_volume_chk"
    [] OTHER -> ""

historyRow(asset_id, p, clock) ==
  [asset_id |-> asset_id, month |-> p.date, open |-> p.open, high |-> p.high,
   low |-> p.low, close |-> p.close, volume |-> p.volume,
   currency |-> p.currency, fetched_at |-> clock]

\* A write that is lost.
upsertDropped(table, asset_id, p, clock) == table

\* An upsert whose DO UPDATE leaves fetched_at as it was.
upsertKeepsFetchedAt(table, asset_id, p, clock) ==
  {r \in table : ~(r.asset_id = asset_id /\ r.month = p.date)}
    \cup {[asset_id |-> asset_id, month |-> p.date, open |-> p.open, high |-> p.high,
           low |-> p.low, close |-> p.close, volume |-> p.volume, currency |-> p.currency,
           fetched_at |-> IF \E r \in table : r.asset_id = asset_id /\ r.month = p.date
                          THEN (CHOOSE r \in table :
                                  r.asset_id = asset_id /\ r.month = p.date).fetched_at
                          ELSE clock]}

\* An INSERT without the ON CONFLICT clause, on a table without the key.
insertQuery(table, asset_id, p, clock) ==
  table \cup {[asset_id |-> asset_id, month |-> p.date, open |-> p.open, high |-> p.high,
               low |-> p.low, close |-> p.close, volume |-> p.volume,
               currency |-> p.currency, fetched_at |-> clock]}

\* INSERT ... ON CONFLICT (asset_id, month) DO UPDATE SET <all value columns>, fetched_at = NOW()
upsertQuery(table, asset_id, p, clock) ==
  {r \in table : ~(r.asset_id = asset_id /\ r.month = p.date)}
    \cup {historyRow(asset_id, p, clock)}

\* SELECT ... WHERE asset_id = $1 AND month >= $2 AND fetched_at > NOW() - $3 ORDER BY month
cacheCheckQuery(table, asset_id, startDate, ttl, clock) ==
  OrderByMonth({r \in table : r.asset_id = asset_id /\ r.month >= startDate
                               /\ r.fetched_at > clock - ttl})

\* A fallback query that leaves out the rows of earlier days.
staleQueryRecent(table, asset_id, startDate) ==
  OrderByMonth({r \in table : r.asset_id = asset_id /\ r.month >= startDate
                               /\ r.fetched_at >= 0})

\* SELECT ... WHERE asset_id = $1 AND month >= $2 ORDER BY month
staleQuery(table, asset_id, startDate) ==
  OrderByMonth({r \in table : r.asset_id = asset_id /\ r.month >= startDate})

---------------------------------------------------------------------------
(* table assets *)

assetIndex(table, symbol, assetType) ==
  IF \E i \in 1..Len(table) : table[i].symbol = symbol /\ table[i].asset_type = assetType
  THEN CHOOSE i \in 1..Len(table) : table[i].symbol = symbol /\ table[i].asset_type = assetType
  ELSE Len(table) + 1

\* INSERT INTO assets ... ON CONFLICT (symbol, asset_type) DO UPDATE SET symbol = EXCLUDED.symbol
assetQuery(table, symbol, assetType) ==
  IF assetIndex(table, symbol, assetType) <= Len(table) THEN table
  ELSE Append(table, [symbol |-> symbol, asset_type |-> assetType])

assetRow(table, symbol, assetType) ==
  [id |-> assetIndex(table, symbol, assetType), symbol |-> symbol,
   asset_type |-> assetType, currency |-> "USD"]

---------------------------------------------------------------------------
(* yahooFinanceService.js: the adapter, and what the upstream may answer *)

Item(date, o, h, l, c, v, cur) ==
  [date |-> date, open |-> o, high |-> h, low |-> l, close |-> c,
   volume |-> v, currency |-> cur]

Flat(date, c) == Item(date, c, c, c, c, 10, "USD")

Thrown == [throws |-> TRUE, items |-> <<>>]

Returned(items) == [throws |-> FALSE, items |-> items]

\* getHistoricalData: an empty or missing result is thrown as an error, every
\* item gets currency 'USD'.  The test double returns what the test gives it.
getHistoricalData(mocked, reply) ==
  IF mocked THEN reply
  ELSE IF reply.throws \/ Len(reply.items) = 0 THEN Thrown
  ELSE Returned([i \in 1..Len(reply.items) |->
                   [reply.items[i] EXCEPT !.currency = "USD"]])

\* What yahooFinance.historical may answer to a request: a network failure,
\* no data for the symbol, or the most recent n monthly (weekly, daily) items
\* of the span at one price level.
itemDate(interval, n, k) ==
  CASE interval = "1mo" -> Date(ThisMonth - n + k, 1)
    [] interval = "1wk" -> Date(ThisMonth, 1) - 7 * (n - k)
    [] OTHER -> Date(ThisMonth, 1) - (n - k)

recentItems(interval, n, c) == [k \in 1..n |-> Flat(itemDate(interval, n, k), c)]

BatchSizes(months) == IF months >= 24 THEN {months \div 3, months \div 6} ELSE {months \div 3}

Closes == {5, 7}

\* The upstream of a run: it holds the most recent periods only, or every
\* period of the requested span; the prices it quotes; whether the ML service
\* may stop sending in the middle of a response body; whether the model may
\* forecast a price below zero.
RecentListing ==
  [whole |-> FALSE, closes |-> Closes, mlStalls |-> FALSE, mlBelowZero |-> FALSE]

WholeListing ==
  [whole |-> TRUE, closes |-> {7, 0}, mlStalls |-> FALSE, mlBelowZero |-> FALSE]

RawReplies(args) ==
  {Thrown, Returned(<<>>)}
    \cup {Returned(recentItems(args.interval, n, c)) :
            n \in (IF upstream.whole
                   THEN {calculateExpectedPoints(args.months, args.interval)}
                   ELSE BatchSizes(args.months)),
            c \in upstream.closes}

\* What the test double is made to return: a failure, an empty array, or a
\* batch of monthly items of which one is of the given kind.
BadKinds == {"none", "currency", "close", "volume", "ohlc", "currency+close", "currency+ohlc"}

BadItem(kind, date) ==
  CASE kind = "currency" -> Item(date, 7, 7, 7, 7, 10, "GBP")
    [] kind = "close" -> Item(date, 7, 7, 0 - 1, 0 - 1, 10, "USD")
    [] kind = "volume" -> Item(date, 7, 7, 7, 7, 0 - 1, "USD")
    [] kind = "ohlc" -> Item(date, 7, 6, 5, 9, 10, "USD")
    [] kind = "currency+close" -> Item(date, 7, 7, 0 - 1, 0 - 1, 10, "GBP")
    [] kind = "currency+ohlc" -> Item(date, 7, 6, 5, 9, 10, "GBP")
    [] OTHER -> Flat(date, 7)

MockBatchLen == 10

mockItems(pos, kind) ==
  [k \in 1..MockBatchLen |->
     IF k = pos THEN BadItem(kind, itemDate("1mo", MockBatchLen, k))
     ELSE Flat(itemDate("1mo", MockBatchLen, k), 7)]

MockReplies ==
  {Thrown, Returned(<<>>)}
    \cup {Returned(mockItems(pos, kind)) : pos \in 1..MockBatchLen, kind \in BadKinds}

Replies(mocked, args) == IF mocked THEN MockReplies ELSE RawReplies(args)

---------------------------------------------------------------------------
(* Results *)

NullResponse ==
  [symbol |-> "", assetType |-> "", currency |-> "", currentPrice |-> NullNum,
   range |-> 0, interval |-> "", dataPoints |-> 0, series |-> <<>>,
   source |-> "", cachedAt |-> 0, ttl |-> 0, warning |-> ""]

Pending == [status |-> "pending", value |-> NullResponse, message |-> ""]

Resolved(response) == [status |-> "ok", value |-> response, message |-> ""]

Rejected(message) == [status |-> "error", value |-> NullResponse, message |-> message]

\* marketController.js: a request that fails validation is answered with 400
BadRequest == [status |-> "badRequest", value |-> NullResponse, message |-> ""]

\* marketController.js: the status the controller answers with
httpStatus(outcome) ==
  CASE outcome.status = "ok" -> 200
    [] outcome.status = "badRequest" -> 400
    [] outcome.message = "SYMBOL_NOT_FOUND" -> 404
    [] outcome.message = "SERVICE_UNAVAILABLE" -> 503
    [] OTHER -> 500

\* A stale response that carries no warning text.
noWarning == ""

staleWarning == "Data may be outdated due to external service unavailability"

---------------------------------------------------------------------------
(* Requests and frames *)

NoRequest ==
  [kind |-> "none", symbol |-> "", months |-> 0, interval |-> "", horizon |-> "", ttl |-> 0]

HistoryRequest(symbol, months, interval, ttl) ==
  [kind |-> "history", symbol |-> symbol, months |-> months,
   interval |-> interval, horizon |-> "", ttl |-> ttl]

PredictionRequest(symbol, horizon, ttl) ==
  [kind |-> "prediction", symbol |-> symbol, months |-> 0,
   interval |-> "", horizon |-> horizon, ttl |-> ttl]

NoArgs == [symbol |-> "", months |-> 0, interval |-> "", ttl |-> 0]

NoAsset == [id |-> 0, symbol |-> "", asset_type |-> "", currency |-> ""]

NoFrame ==
  [pc |-> "none", asset |-> NoAsset, startDate |-> 0, reply |-> Thrown,
   yahooData |-> <<>>, i |-> 0, upsertedRows |-> <<>>, outcome |-> Pending]

\* A key made of the symbol alone.
keyOfSymbol(args) == getCacheKey(args.symbol, 0, "")

\* const cacheKey = getCacheKey(symbol, months, interval)
keyOf(args) == getCacheKey(args.symbol, args.months, args.interval)

\* A registry in which no key is ever found.
hasNever(map, key) == FALSE

\* inflightRequests.has(cacheKey)
has(map, key) == key \in DOMAIN map

\* A delete that leaves the entry in place.
deleteNothing(map, key) == map

\* inflightRequests.delete(cacheKey)
delete(map, key) == [k \in DOMAIN map \ {key} |-> map[k]]

\* A lookup that hands out a promise nobody settles.
getUnsettled(map, key) == NumCalls + 1 - map[key]

\* inflightRequests.get(cacheKey)
get(map, key) == map[key]

\* inflightRequests.set(cacheKey, promise)
set(map, key, promise) == [k \in DOMAIN map \cup {key} |-> IF k = key THEN promise ELSE map[k]]

settle(frame, outcome) == [frame EXCEPT !.pc = "settled", !.outcome = outcome]

---------------------------------------------------------------------------
(* marketDataService.js: getAssetHistory *)

\* The synchronous part of getAssetHistory(symbol, months, interval, ttl) made
\* as call c: join the in-flight promise of the key, or invoke
\* fetchAssetHistoryInternal (which runs to its first await) and register it.
getAssetHistory(c, args) ==
  /\ hargs' = [hargs EXCEPT ![c] = args]
  /\ IF has(inflightRequests, keyOf(args))
     THEN /\ hpc' = [hpc EXCEPT ![c] = "joined"]
          /\ awaiting' = [awaiting EXCEPT ![c] = get(inflightRequests, keyOf(args))]
          /\ UNCHANGED <<inflightRequests, comp>>
     ELSE /\ hpc' = [hpc EXCEPT ![c] = "owner"]
          /\ awaiting' = [awaiting EXCEPT ![c] = c]
          /\ inflightRequests' = set(inflightRequests, keyOf(args), c)
          /\ comp' = [comp EXCEPT ![c] = [NoFrame EXCEPT !.pc = "assetQuery"]]

\* The market controller calls the service for a history request.
CallHistory(c) ==
  /\ req[c].kind = "history"
  /\ hpc[c] = "idle"
  /\ validHistoryRequest(req[c])
  /\ getAssetHistory(c, [symbol |-> req[c].symbol, months |-> req[c].months,
                         interval |-> req[c].interval, ttl |-> req[c].ttl])
  /\ UNCHANGED <<now, adapterMocked, upstream, assets, asset_price_history, req, hresult, yahooCalls>>
  /\ UNCHANGED predVars

\* The market controller answers 400 to a request that fails a validation;
\* the service is not called.
RejectHistory(c) ==
  /\ req[c].kind = "history"
  /\ hpc[c] = "idle"
  /\ ~validHistoryRequest(req[c])
  /\ hpc' = [hpc EXCEPT ![c] = "rejected"]
  /\ hresult' = [hresult EXCEPT ![c] = BadRequest]
  /\ UNCHANGED <<now, adapterMocked, upstream, assets, asset_price_history, req,
                 inflightRequests, hargs, awaiting, comp, yahooCalls>>
  /\ UNCHANGED predVars

\* const result = await promise; finally inflightRequests.delete(cacheKey)
OwnerResume(c) ==
  /\ hpc[c] = "owner"
  /\ comp[c].pc = "settled"
  /\ inflightRequests' = delete(inflightRequests, keyOf(hargs[c]))
  /\ hpc' = [hpc EXCEPT ![c] = "done"]
  /\ hresult' = [hresult EXCEPT ![c] = comp[c].outcome]
  /\ UNCHANGED <<now, adapterMocked, upstream, assets, asset_price_history, req, hargs,
                 awaiting, comp, yahooCalls>>
  /\ UNCHANGED predVars

\* return await inflightRequests.get(cacheKey): the reactions of a promise run
\* in the order they were registered, the owner's first.
JoinerResume(c) ==
  /\ hpc[c] = "joined"
  /\ comp[awaiting[c]].pc = "settled"
  /\ hpc[awaiting[c]] = "done"
  /\ hpc' = [hpc EXCEPT ![c] = "done"]
  /\ hresult' = [hresult EXCEPT ![c] = comp[awaiting[c]].outcome]
  /\ UNCHANGED <<now, adapterMocked, upstream, assets, asset_price_history, inflightRequests,
                 req, hargs, awaiting, comp, yahooCalls>>
  /\ UNCHANGED predVars

---------------------------------------------------------------------------
(* marketDataService.js: fetchAssetHistoryInternal, one action per await *)

\* Step 1 and 2: get or create the asset, compute the date range.
AssetQuery(c) ==
  /\ comp[c].pc = "assetQuery"
  /\ LET symbolUpper == toUpperCase(hargs[c].symbol)
         assetType == inferAssetType(symbolUpper)
     IN /\ assets' = assetQuery(assets, symbolUpper, assetType)
        /\ comp' = [comp EXCEPT ![c].pc = "cacheCheck",
                                ![c].asset = assetRow(assets, symbolUpper, assetType),
                                ![c].startDate = startDateOf(hargs[c].months)]
  /\ UNCHANGED <<now, adapterMocked, upstream, asset_price_history, inflightRequests, req,
                 hpc, hargs, awaiting, hresult, yahooCalls>>
  /\ UNCHANGED predVars

\* Step 3: the cache check with TTL; a hit returns the cached rows.
CacheCheck(c) ==
  /\ comp[c].pc = "cacheCheck"
  /\ LET a == hargs[c]
         rows == cacheCheckQuery(asset_price_history, comp[c].asset.id,
                                 comp[c].startDate, a.ttl, now)
         expectedPoints == calculateExpectedPoints(a.months, a.interval)
     IN IF hasSufficientData(Len(rows), expectedPoints) /\ Len(rows) > 0
        THEN comp' = [comp EXCEPT ![c] = settle(@, Resolved(
                        formatResponse(comp[c].asset, rows, a.months, a.interval,
                                       "cache", a.ttl, "", now)))]
        ELSE comp' = [comp EXCEPT ![c].pc = "yahoo"]
  /\ UNCHANGED <<now, adapterMocked, upstream, assets, asset_price_history, inflightRequests,
                 req, hpc, hargs, awaiting, hresult, yahooCalls>>
  /\ UNCHANGED predVars

\* Step 4: the adapter call; a throw leads to the stale query, an empty array
\* to SYMBOL_NOT_FOUND, data to the upsert loop.
YahooCall(c) ==
  /\ comp[c].pc = "yahoo"
  /\ \E reply \in Replies(adapterMocked, hargs[c]) :
       LET res == getHistoricalData(adapterMocked, reply)
       IN comp' = [comp EXCEPT ![c] =
            IF res.throws THEN [@ EXCEPT !.pc = "staleQuery", !.reply = reply]
            ELSE IF Len(res.items) = 0
              THEN settle([@ EXCEPT !.reply = reply], Rejected("SYMBOL_NOT_FOUND"))
            ELSE [@ EXCEPT !.pc = "upsert", !.reply = reply,
                           !.yahooData = res.items, !.i = 1]]
  /\ yahooCalls' = [yahooCalls EXCEPT ![c] = @ + 1]
  /\ UNCHANGED <<now, adapterMocked, upstream, assets, asset_price_history, inflightRequests,
                 req, hpc, hargs, awaiting, hresult>>
  /\ UNCHANGED predVars

\* A stale fallback that stamps the rows it serves as fetched now.
StaleQueryTouching(c) ==
  /\ comp[c].pc = "staleQuery"
  /\ LET a == hargs[c]
         rows == staleQuery(asset_price_history, comp[c].asset.id, comp[c].startDate)
     IN comp' = [comp EXCEPT ![c] = settle(@,
          IF Len(rows) > 0
          THEN Resolved(formatResponse(comp[c].asset, rows, a.months, a.interval,
                                       "stale_cache", a.ttl, staleWarning, now))
          ELSE Rejected("SERVICE_UNAVAILABLE"))]
  /\ asset_price_history' = {[r EXCEPT !.fetched_at = now] : r \in asset_price_history}
  /\ UNCHANGED <<now, adapterMocked, upstream, assets, inflightRequests,
                 req, hpc, hargs, awaiting, hresult, yahooCalls>>
  /\ UNCHANGED predVars

\* The catch of step 4: serve persisted rows of any age, or fail.
StaleQuery(c) ==
  /\ comp[c].pc = "staleQuery"
  /\ LET a == hargs[c]
         rows == staleQuery(asset_price_history, comp[c].asset.id, comp[c].startDate)
     IN comp' = [comp EXCEPT ![c] = settle(@,
          IF Len(rows) > 0
          THEN Resolved(formatResponse(comp[c].asset, rows, a.months, a.interval,
                                       "stale_cache", a.ttl, staleWarning, now))
          ELSE Rejected("SERVICE_UNAVAILABLE"))]
  /\ UNCHANGED <<now, adapterMocked, upstream, assets, asset_price_history, inflightRequests,
                 req, hpc, hargs, awaiting, hresult, yahooCalls>>
  /\ UNCHANGED predVars

\* A catch that rethrows every error.
neverSkipped(violated) == FALSE

\* A catch that swallows every error.
alwaysSkipped(violated) == TRUE

\* The catch inside the loop: error.message.includes('asset_price_history_currency_chk')
isCurrencyViolation(violated) == violated = "asset_price_history_currency_chk"

\* Step 5 and 6: one iteration of the upsert loop; after the last one the
\* response is formatted from the upserted rows.
Upsert(c) ==
  /\ comp[c].pc = "upsert"
  /\ LET a == hargs[c]
         f == comp[c]
         dataPoint == f.yahooData[f.i]
         violated == violatedConstraint(dataPoint)
         rows == IF violated = "" 
                 THEN Append(f.upsertedRows, historyRow(f.asset.id, dataPoint, now))
                 ELSE f.upsertedRows
     IN /\ asset_price_history' =
             IF violated = "" 
             THEN upsertQuery(asset_price_history, f.asset.id, dataPoint, now)
             ELSE asset_price_history
        /\ comp' = [comp EXCEPT ![c] =
             IF violated # "" /\ ~isCurrencyViolation(violated)
             THEN settle(@, Rejected(violated))
             ELSE IF f.i = Len(f.yahooData)
               THEN settle([@ EXCEPT !.upsertedRows = rows],
                           Resolved(formatResponse(f.asset, rows, a.months, a.interval,
                                                   "yahoo", a.ttl, "", now)))
             ELSE [@ EXCEPT !.upsertedRows = rows, !.i = f.i + 1]]
  /\ UNCHANGED <<now, adapterMocked, upstream, assets, inflightRequests, req, hpc, hargs,
                 awaiting, hresult, yahooCalls>>
  /\ UNCHANGED predVars

---------------------------------------------------------------------------
(* predictionController.js and predictionService.js: tables and helpers *)

validHorizons == {"3m", "6m", "1y", "2y", "5y"}

\* predictionController.js: ttl by horizon
horizonToTTL(horizon) == IF horizon \in {"3m", "6m"} THEN 3600 ELSE 86400

parseHorizon(horizon) ==
  CASE horizon = "3m" -> 3
    [] horizon = "6m" -> 6
    [] horizon = "1y" -> 12
    [] horizon = "2y" -> 24
    [] horizon = "5y" -> 60
    [] OTHER -> 6

Max(a, b) == IF a >= b THEN a ELSE b

\* A span of twice the horizon with no floor of 24 months.
historyMonthsNoFloor(horizon) == parseHorizon(horizon) * 2

\* Math.max(24, parseHorizon(horizon) * 2)
historyMonths(horizon) == Max(24, parseHorizon(horizon) * 2)

minObservations == 6

getPredictionCacheKey(assetId, horizon) == <<assetId, horizon>>

RowDate(r) == r.prediction_date

\* ORDER BY prediction_date ASC
RECURSIVE OrderByDate(_)
OrderByDate(S) ==
  IF S = {} THEN <<>>
  ELSE LET r == MinBy(S, RowDate) IN <<r>> \o OrderByDate(S \ {r})

\* A cache check that looks at the asset and the age only.
predictionCacheCheckAnyHorizon(table, assetId, horizon, ttl, clock) ==
  OrderByDate({r \in table : r.asset_id = assetId /\ r.fetched_at > clock - ttl})

\* SELECT ... WHERE asset_id = $1 AND prediction_horizon = $2 AND fetched_at > NOW() - $3
predictionCacheCheckQuery(table, assetId, horizon, ttl, clock) ==
  OrderByDate({r \in table : r.asset_id = assetId /\ r.prediction_horizon = horizon
                              /\ r.fetched_at > clock - ttl})

\* A stale lookup that serves only rows fetched within the last hour.
predictionStaleQueryRecent(table, assetId, horizon) ==
  OrderByDate({r \in table : /\ r.asset_id = assetId /\ r.prediction_horizon = horizon
                             /\ r.fetched_at > now - 3600})

\* SELECT ... WHERE asset_id = $1 AND prediction_horizon = $2
predictionStaleQuery(table, assetId, horizon) ==
  OrderByDate({r \in table : r.asset_id = assetId /\ r.prediction_horizon = horizon})

predictionRow(assetId, horizon, p, modelVersion, clock) ==
  [asset_id |-> assetId, prediction_horizon |-> horizon, prediction_date |-> p.date,
   predicted_close |-> p.predicted_close, model_version |-> modelVersion,
   fetched_at |-> clock]

\* INSERT ... ON CONFLICT (asset_id, prediction_horizon, prediction_date) DO UPDATE ...
predictionUpsertQuery(table, assetId, horizon, p, modelVersion, clock) ==
  {r \in table : ~(r.asset_id = assetId /\ r.prediction_horizon = horizon
                   /\ r.prediction_date = p.date)}
    \cup {predictionRow(assetId, horizon, p, modelVersion, clock)}

\* app.js: the CHECK constraints of asset_predictions, in alphabetical order
violatedPredictionConstraint(horizon, p) ==
  CASE p.predicted_close < 0 -> "asset_predictions_close_chk"
    [] horizon \notin validHorizons -> "asset_predictions_horizon_chk"
    [] OTHER -> ""

predictionPoints(rows) ==
  [i \in 1..Len(rows) |-> [date |-> rows[i].prediction_date,
                            predicted_close |-> rows[i].predicted_close]]

NullPrediction ==
  [symbol |-> "", assetId |-> 0, horizon |-> "", predictions |-> <<>>, source |-> "",
   cachedAt |-> 0, ttl |-> 0, modelVersion |-> "", warning |-> ""]

PendingPrediction == [status |-> "pending", value |-> NullPrediction]

ReturnedNull == [status |-> "null", value |-> NullPrediction]

ReturnedPrediction(response) == [status |-> "ok", value |-> response]

\* predictionController.js: the status the controller answers with
predictionHttpStatus(outcome) == IF outcome.status = "ok" THEN 200 ELSE 503

predictionWarning == "Predictions may be outdated. ML service temporarily unavailable."

---------------------------------------------------------------------------
(* chronosService.js: the ML adapter, and what the ML service may answer *)

MLFailed == [ok |-> FALSE, hasPredictions |-> FALSE, predictions |-> <<>>, model_version |-> ""]

MLBody(hasPredictions, predictions) ==
  [ok |-> TRUE, hasPredictions |-> hasPredictions, predictions |-> predictions,
   model_version |-> "chronos-t5-small"]

forecast(level) ==
  [k \in 1..2 |-> [date |-> Date(ThisMonth + k, 1), predicted_close |-> level]]

\* A forecast whose last point is below zero.
forecastBelowZero == [forecast(7) EXCEPT ![Len(forecast(7))].predicted_close = 0 - 1]

\* How a request to the ML service may end: fetch rejects ("network"), no
\* headers within TIMEOUT_MS so that the abort fires ("timeout"), a status
\* outside 2xx whose text is `body` ("status"), a body that is not JSON
\* ("badJson"), headers and then a body that never completes ("stall"), or
\* the parsed body ("body").
MLRaw(kind, body) == [kind |-> kind, body |-> body]

MLFailureKinds == {"network", "timeout", "status", "badJson"}

MLReplies ==
  {MLRaw(k, MLBody(FALSE, <<>>)) : k \in MLFailureKinds}
    \cup {MLRaw("body", MLBody(FALSE, <<>>))}
    \cup {MLRaw("body", MLBody(TRUE, forecast(level))) : level \in {5, 7}}
    \cup (IF upstream.mlStalls THEN {MLRaw("stall", MLBody(FALSE, <<>>))} ELSE {})
    \cup (IF upstream.mlBelowZero THEN {MLRaw("body", MLBody(TRUE, forecastBelowZero))}
          ELSE {})

\* A client that hands on whatever the service sent.
getPredictionUnguarded(reply) == reply.body

\* getPrediction: null on any failure, else the parsed body
getPrediction(reply) == IF reply.kind = "body" THEN reply.body ELSE MLFailed

NoPredictionArgs == [assetId |-> 0, symbol |-> "", horizon |-> "", ttl |-> 0]

NoPredictionFrame ==
  [pc |-> "none", mlResult |-> MLFailed, i |-> 0, outcome |-> PendingPrediction]

predictionKeyOf(args) == getPredictionCacheKey(args.assetId, args.horizon)

settlePrediction(frame, outcome) == [frame EXCEPT !.pc = "settled", !.outcome = outcome]

---------------------------------------------------------------------------
(* predictionService.js: getAssetPrediction *)

\* predictionController.js getPrediction: get or create the asset, then call
\* getAssetPrediction, which joins the in-flight promise of the key or invokes
\* fetchPredictionInternal and registers it.
CallPrediction(c) ==
  /\ req[c].kind = "prediction"
  /\ ppc[c] = "idle"
  /\ LET symbolUpper == toUpperCase(req[c].symbol)
         assetType == inferAssetType(symbolUpper)
         args == [assetId |-> assetIndex(assets, symbolUpper, assetType),
                  symbol |-> symbolUpper, horizon |-> req[c].horizon, ttl |-> req[c].ttl]
     IN /\ assets' = assetQuery(assets, symbolUpper, assetType)
        /\ pargs' = [pargs EXCEPT ![c] = args]
        /\ IF has(inflightPredictions, predictionKeyOf(args))
           THEN /\ ppc' = [ppc EXCEPT ![c] = "joined"]
                /\ pawaiting' = [pawaiting EXCEPT ![c] =
                                   inflightPredictions[predictionKeyOf(args)]]
                /\ UNCHANGED <<inflightPredictions, pcomp>>
           ELSE /\ ppc' = [ppc EXCEPT ![c] = "owner"]
                /\ pawaiting' = [pawaiting EXCEPT ![c] = c]
                /\ inflightPredictions' = set(inflightPredictions, predictionKeyOf(args), c)
                /\ pcomp' = [pcomp EXCEPT ![c] = [NoPredictionFrame EXCEPT !.pc = "cacheCheck"]]
  /\ UNCHANGED <<now, adapterMocked, upstream, req, asset_price_history, inflightRequests, hpc,
                 hargs, awaiting, hresult, comp, yahooCalls>>
  /\ UNCHANGED <<asset_predictions, presult, mlCalls>>

PredictionOwnerResume(c) ==
  /\ ppc[c] = "owner"
  /\ pcomp[c].pc = "settled"
  /\ inflightPredictions' = delete(inflightPredictions, predictionKeyOf(pargs[c]))
  /\ ppc' = [ppc EXCEPT ![c] = "done"]
  /\ presult' = [presult EXCEPT ![c] = pcomp[c].outcome]
  /\ UNCHANGED <<now, adapterMocked, upstream, req, histVars>>
  /\ UNCHANGED <<asset_predictions, pargs, pawaiting, pcomp, mlCalls>>

PredictionJoinerResume(c) ==
  /\ ppc[c] = "joined"
  /\ pcomp[pawaiting[c]].pc = "settled"
  /\ ppc[pawaiting[c]] = "done"
  /\ ppc' = [ppc EXCEPT ![c] = "done"]
  /\ presult' = [presult EXCEPT ![c] = pcomp[pawaiting[c]].outcome]
  /\ UNCHANGED <<now, adapterMocked, upstream, req, histVars>>
  /\ UNCHANGED <<asset_predictions, inflightPredictions, pargs, pawaiting, pcomp, mlCalls>>

---------------------------------------------------------------------------
(* predictionService.js: fetchPredictionInternal, one action per await *)

\* Tier 2: the cache check with TTL.  On a miss getAssetHistory is called for
\* the history the model needs.
PredictionCacheCheck(c) ==
  /\ pcomp[c].pc = "cacheCheck"
  /\ LET a == pargs[c]
         rows == predictionCacheCheckQuery(asset_predictions, a.assetId, a.horizon, a.ttl, now)
     IN IF Len(rows) > 0
        THEN /\ pcomp' = [pcomp EXCEPT ![c] = settlePrediction(@, ReturnedPrediction(
                  [symbol |-> a.symbol, assetId |-> a.assetId, horizon |-> a.horizon,
                   predictions |-> predictionPoints(rows), source |-> "cache",
                   cachedAt |-> rows[1].fetched_at, ttl |-> a.ttl,
                   modelVersion |-> rows[1].model_version, warning |-> ""]))]
             /\ UNCHANGED <<hpc, hargs, awaiting, inflightRequests, comp>>
        ELSE /\ pcomp' = [pcomp EXCEPT ![c].pc = "history"]
             /\ getAssetHistory(c, [symbol |-> a.symbol, months |-> historyMonths(a.horizon),
                                    interval |-> "1mo", ttl |-> 3600])
  /\ UNCHANGED <<now, adapterMocked, upstream, req, assets, asset_price_history, hresult, yahooCalls>>
  /\ UNCHANGED <<asset_predictions, inflightPredictions, ppc, pargs, pawaiting, presult, mlCalls>>

\* A test that lets every history pass.
insufficientNever(historicalData) == FALSE

\* !historicalData || !historicalData.series || historicalData.series.length < 6
insufficientHistory(historicalData) == Len(historicalData.series) < minObservations

\* The history arrived: an error leads to the stale lookup, fewer than 6
\* observations end the request with null, else the model is called.
HistoryArrived(c) ==
  /\ pcomp[c].pc = "history"
  /\ hpc[c] = "done"
  /\ pcomp' = [pcomp EXCEPT ![c] =
       IF hresult[c].status = "error" THEN [@ EXCEPT !.pc = "staleQuery"]
       ELSE IF insufficientHistory(hresult[c].value)
         THEN settlePrediction(@, ReturnedNull)
       ELSE [@ EXCEPT !.pc = "model"]]
  /\ UNCHANGED <<now, adapterMocked, upstream, req, histVars>>
  /\ UNCHANGED <<asset_predictions, inflightPredictions, ppc, pargs, pawaiting, presult, mlCalls>>

predictionResponse(a, mlResult, clock) ==
  [symbol |-> a.symbol, assetId |-> a.assetId, horizon |-> a.horizon,
   predictions |-> mlResult.predictions, source |-> "ml_service", cachedAt |-> clock,
   ttl |-> a.ttl, modelVersion |-> mlResult.model_version, warning |-> ""]

\* An orchestrator that asks the model again after a failure.
afterModelRetry(frame, a, mlResult, clock) ==
  IF ~mlResult.ok \/ ~mlResult.hasPredictions THEN [frame EXCEPT !.pc = "model"]
  ELSE [frame EXCEPT !.pc = "store", !.mlResult = mlResult, !.i = 1]

\* What fetchPredictionInternal does with the result of getPrediction: null
\* or a body without predictions leads to the stale lookup, predictions to
\* storePredictions.
afterModel(frame, a, mlResult, clock) ==
  IF ~mlResult.ok \/ ~mlResult.hasPredictions THEN [frame EXCEPT !.pc = "staleQuery"]
  ELSE IF Len(mlResult.predictions) = 0
    THEN settlePrediction([frame EXCEPT !.mlResult = mlResult],
                          ReturnedPrediction(predictionResponse(a, mlResult, clock)))
  ELSE [frame EXCEPT !.pc = "store", !.mlResult = mlResult, !.i = 1]

\* Step 3: the model call.  When the service stops in the middle of the body
\* the call stays in await response.json(): the timer was cleared when the
\* headers arrived.
ModelCall(c) ==
  /\ pcomp[c].pc = "model"
  /\ \E reply \in MLReplies :
       pcomp' = [pcomp EXCEPT ![c] =
         IF reply.kind = "stall" THEN [@ EXCEPT !.pc = "modelBody"]
         ELSE afterModel(@, pargs[c], getPrediction(reply), now)]
  /\ mlCalls' = [mlCalls EXCEPT ![c] = @ + 1]
  /\ UNCHANGED <<now, adapterMocked, upstream, req, histVars>>
  /\ UNCHANGED <<asset_predictions, inflightPredictions, ppc, pargs, pawaiting, presult>>

\* The read of a stalled body is ended from outside the program (the
\* connection is closed, the runtime gives up): response.json() rejects and
\* getPrediction returns null from its catch.
BodyReadFails(c) ==
  /\ pcomp[c].pc = "modelBody"
  /\ pcomp' = [pcomp EXCEPT ![c] = afterModel(@, pargs[c], MLFailed, now)]
  /\ UNCHANGED <<now, adapterMocked, upstream, req, histVars>>
  /\ UNCHANGED <<asset_predictions, inflightPredictions, ppc, pargs, pawaiting, presult,
                 mlCalls>>

\* Step 4 and 5: one iteration of storePredictions; a store error ends the
\* loop and is swallowed, the response is built from the model's result.
StorePrediction(c) ==
  /\ pcomp[c].pc = "store"
  /\ LET a == pargs[c]
         f == pcomp[c]
         prediction == f.mlResult.predictions[f.i]
         violated == violatedPredictionConstraint(a.horizon, prediction)
     IN /\ asset_predictions' =
             IF violated = ""
             THEN predictionUpsertQuery(asset_predictions, a.assetId, a.horizon,
                                        prediction, f.mlResult.model_version, now)
             ELSE asset_predictions
        /\ pcomp' = [pcomp EXCEPT ![c] =
             IF violated # "" \/ f.i = Len(f.mlResult.predictions)
             THEN settlePrediction(@, ReturnedPrediction(predictionResponse(a, f.mlResult, now)))
             ELSE [@ EXCEPT !.i = f.i + 1]]
  /\ UNCHANGED <<now, adapterMocked, upstream, req, histVars>>
  /\ UNCHANGED <<inflightPredictions, ppc, pargs, pawaiting, presult, mlCalls>>

\* tryStaleCache: serve persisted predictions of any age, or null.
tryStaleCache(c) ==
  /\ pcomp[c].pc = "staleQuery"
  /\ LET a == pargs[c]
         rows == predictionStaleQuery(asset_predictions, a.assetId, a.horizon)
     IN pcomp' = [pcomp EXCEPT ![c] = settlePrediction(@,
          IF Len(rows) > 0
          THEN ReturnedPrediction(
                 [symbol |-> a.symbol, assetId |-> a.assetId, horizon |-> a.horizon,
                  predictions |-> predictionPoints(rows), source |-> "stale_cache",
                  cachedAt |-> rows[1].fetched_at, ttl |-> 0,
                  modelVersion |-> rows[1].model_version, warning |-> predictionWarning])
          ELSE ReturnedNull)]
  /\ UNCHANGED <<now, adapterMocked, upstream, req, histVars>>
  /\ UNCHANGED <<asset_predictions, inflightPredictions, ppc, pargs, pawaiting, presult, mlCalls>>

\* Time passes: an hour, the longest TTL of the controller.
Tick ==
  /\ now' = now + intervalToTTL("1mo")
  /\ now' <= MaxTicks * intervalToTTL("1mo")
  /\ UNCHANGED <<adapterMocked, upstream, assets, asset_price_history, inflightRequests, req,
                 hpc, hargs, awaiting, hresult, comp, yahooCalls>>
  /\ UNCHANGED predVars

---------------------------------------------------------------------------
(* The system: concurrent history requests against the real adapter *)

FirstRequest == HistoryRequest("aapl", 6, "1mo", intervalToTTL("1mo"))

MainRequests ==
  {HistoryRequest("AAPL", 6, "1mo", intervalToTTL("1mo")),
   HistoryRequest("AAPL", 12, "1mo", intervalToTTL("1mo")),
   HistoryRequest("AAPL", 6, "1wk", intervalToTTL("1wk")),
   HistoryRequest("BTC-USD", 6, "1mo", intervalToTTL("1mo"))}

InitCalls ==
  /\ inflightPredictions = <<>>
  /\ ppc = [c \in Calls |-> "idle"]
  /\ pargs = [c \in Calls |-> NoPredictionArgs]
  /\ pawaiting = [c \in Calls |-> 0]
  /\ presult = [c \in Calls |-> PendingPrediction]
  /\ pcomp = [c \in Calls |-> NoPredictionFrame]
  /\ mlCalls = [c \in Calls |-> 0]
  /\ hpc = [c \in Calls |-> "idle"]
  /\ hargs = [c \in Calls |-> NoArgs]
  /\ awaiting = [c \in Calls |-> 0]
  /\ hresult = [c \in Calls |-> Pending]
  /\ comp = [c \in Calls |-> NoFrame]
  /\ yahooCalls = [c \in Calls |-> 0]
  /\ inflightRequests = <<>>

Init ==
  /\ now = 0
  /\ adapterMocked = FALSE
  /\ upstream = RecentListing
  /\ assets = <<>>
  /\ asset_price_history = {}
  /\ asset_predictions = {}
  /\ req \in [Calls -> MainRequests \cup {FirstRequest}]
  /\ req[1] = FirstRequest
  /\ \A c \in Calls \ {1} : req[c] \in MainRequests
  /\ InitCalls

Next ==
  \/ \E c \in Calls : CallHistory(c)
  \/ \E c \in Calls : AssetQuery(c)
  \/ \E c \in Calls : CacheCheck(c)
  \/ \E c \in Calls : YahooCall(c)
  \/ \E c \in Calls : StaleQuery(c)
  \/ \E c \in Calls : Upsert(c)
  \/ \E c \in Calls : OwnerResume(c)
  \/ \E c \in Calls : JoinerResume(c)

Spec == Init /\ [][Next]_vars

---------------------------------------------------------------------------
(* The system: prediction requests beside history requests *)

FirstPrediction == PredictionRequest("AAPL", "6m", horizonToTTL("6m"))

OtherRequests ==
  {PredictionRequest("aapl", "6m", horizonToTTL("6m")),
   PredictionRequest("AAPL", "3m", horizonToTTL("3m")),
   PredictionRequest("BTC-USD", "6m", horizonToTTL("6m")),
   HistoryRequest("AAPL", 12, "1mo", intervalToTTL("1mo"))}

\* The rows an earlier forecast left for the asset and the horizon a day ago.
seedPredictions(assetId, horizon) ==
  {predictionRow(assetId, horizon, forecast(6)[k], "chronos-t5-small", 0 - 86400) :
     k \in 1..Len(forecast(6))}

InitAll ==
  /\ now = 0
  /\ adapterMocked = FALSE
  /\ upstream = RecentListing
  /\ asset_price_history = {}
  /\ \/ assets = <<>> /\ asset_predictions = {}
     \/ /\ assets = <<[symbol |-> "AAPL", asset_type |-> "stocks"]>>
        /\ asset_predictions = seedPredictions(1, "6m")
  /\ req \in [Calls -> OtherRequests \cup {FirstPrediction, NoRequest}]
  /\ req[1] = FirstPrediction
  /\ req[2] \in OtherRequests
  /\ \A c \in Calls \ {1, 2} : req[c] = FirstPrediction
  /\ InitCalls

NextAll ==
  \/ Next
  \/ \E c \in Calls : CallPrediction(c)
  \/ \E c \in Calls : PredictionCacheCheck(c)
  \/ \E c \in Calls : HistoryArrived(c)
  \/ \E c \in Calls : ModelCall(c)
  \/ \E c \in Calls : StorePrediction(c)
  \/ \E c \in Calls : tryStaleCache(c)
  \/ \E c \in Calls : PredictionOwnerResume(c)
  \/ \E c \in Calls : PredictionJoinerResume(c)

SpecAll == InitAll /\ [][NextAll]_vars

---------------------------------------------------------------------------
(* One history request against a store that holds rows of earlier fetches *)

\* The rows an earlier fetch with this interval left for the asset: the
\* `fresh` most recent periods fetched now, the `stale` ones before them
\* fetched a day ago.
seedRows(asset_id, interval, fresh, stale) ==
  {historyRow(asset_id, Flat(itemDate(interval, fresh + stale, k), 5),
              IF k > stale THEN 0 ELSE 0 - 86400) : k \in 1..(fresh + stale)}

FreshRequests ==
  {HistoryRequest("AAPL", 24, "1mo", intervalToTTL("1mo")),
   HistoryRequest("AAPL", 12, "1mo", intervalToTTL("1mo")),
   HistoryRequest("AAPL", 6, "1wk", intervalToTTL("1wk"))}

InitFresh ==
  /\ now = 0
  /\ adapterMocked = FALSE
  /\ upstream = RecentListing
  /\ assets = <<[symbol |-> "AAPL", asset_type |-> "stocks"]>>
  /\ asset_predictions = {}
  /\ req \in [Calls -> FreshRequests \cup {NoRequest}]
  /\ req[1] \in FreshRequests
  /\ \A c \in Calls \ {1} : req[c] = NoRequest
  /\ \E fresh \in 0..calculateExpectedPoints(req[1].months, req[1].interval) :
       \E stale \in {0, 1, calculateExpectedPoints(req[1].months, req[1].interval) - fresh} :
         asset_price_history = seedRows(1, req[1].interval, fresh, stale)
  /\ InitCalls

NextFresh ==
  \/ \E c \in Calls : CallHistory(c)
  \/ \E c \in Calls : AssetQuery(c)
  \/ \E c \in Calls : CacheCheck(c)
  \/ \E c \in Calls : YahooCall(c)
  \/ \E c \in Calls : StaleQuery(c)
  \/ \E c \in Calls : Upsert(c)
  \/ \E c \in Calls : OwnerResume(c)
  \/ Tick

SpecFresh == InitFresh /\ [][NextFresh]_vars

---------------------------------------------------------------------------
(* One history request with getHistoricalData replaced by the test double *)

MockRequest == HistoryRequest("AAPL", 12, "1mo", intervalToTTL("1mo"))

InitMock ==
  /\ now = 0
  /\ adapterMocked = TRUE
  /\ upstream = RecentListing
  /\ assets = <<>>
  /\ asset_price_history = {}
  /\ asset_predictions = {}
  /\ req = [c \in Calls |-> IF c = 1 THEN MockRequest ELSE NoRequest]
  /\ InitCalls

NextMock ==
  \/ \E c \in Calls : CallHistory(c)
  \/ \E c \in Calls : AssetQuery(c)
  \/ \E c \in Calls : CacheCheck(c)
  \/ \E c \in Calls : YahooCall(c)
  \/ \E c \in Calls : StaleQuery(c)
  \/ \E c \in Calls : Upsert(c)
  \/ \E c \in Calls : OwnerResume(c)

SpecMock == InitMock /\ [][NextMock]_vars

---------------------------------------------------------------------------
(* One request of either kind with getHistoricalData replaced by the test double *)

InitMockAll ==
  /\ now = 0
  /\ adapterMocked = TRUE
  /\ upstream = RecentListing
  /\ asset_price_history = {}
  /\ \/ assets = <<>> /\ asset_predictions = {}
     \/ /\ assets = <<[symbol |-> "AAPL", asset_type |-> "stocks"]>>
        /\ asset_predictions = seedPredictions(1, "6m")
  /\ req \in [Calls -> {MockRequest, FirstPrediction, NoRequest}]
  /\ req[1] # NoRequest
  /\ \A c \in Calls \ {1} : req[c] = NoRequest
  /\ InitCalls

NextMockAll ==
  \/ \E c \in Calls : CallHistory(c)
  \/ \E c \in Calls : CallPrediction(c)
  \/ \E c \in Calls : PredictionCacheCheck(c)
  \/ \E c \in Calls : AssetQuery(c)
  \/ \E c \in Calls : CacheCheck(c)
  \/ \E c \in Calls : YahooCall(c)
  \/ \E c \in Calls : StaleQuery(c)
  \/ \E c \in Calls : Upsert(c)
  \/ \E c \in Calls : OwnerResume(c)
  \/ \E c \in Calls : HistoryArrived(c)
  \/ \E c \in Calls : ModelCall(c)
  \/ \E c \in Calls : StorePrediction(c)
  \/ \E c \in Calls : tryStaleCache(c)
  \/ \E c \in Calls : PredictionOwnerResume(c)

SpecMockAll == InitMockAll /\ [][NextMockAll]_vars

---------------------------------------------------------------------------
(* One prediction request against a store that holds earlier forecasts *)

\* The rows a forecast stored at time `at` left for the asset and the horizon.
seedPredictionsAt(assetId, horizon, at) ==
  {predictionRow(assetId, horizon, forecast(6)[k], "chronos-t5-small", at) :
     k \in 1..Len(forecast(6))}

\* Forecasts of the requested asset and horizon stored exactly one ttl ago or
\* half a ttl ago, of the same asset for another horizon, and of another
\* asset for the same horizon.
InitCached ==
  /\ now = 0
  /\ adapterMocked = FALSE
  /\ upstream = RecentListing
  /\ asset_price_history = {}
  /\ assets = <<[symbol |-> "AAPL", asset_type |-> "stocks"],
                [symbol |-> "BTC-USD", asset_type |-> "crypto"]>>
  /\ \E own \in {{}, seedPredictionsAt(1, "6m", 0 - horizonToTTL("6m")),
                    seedPredictionsAt(1, "6m", 0 - 1800)} :
       \E otherHorizon \in {{}, seedPredictionsAt(1, "1y", 0)} :
         \E otherAsset \in {{}, seedPredictionsAt(2, "6m", 0)} :
           asset_predictions = own \cup otherHorizon \cup otherAsset
  /\ req = [c \in Calls |-> IF c = 1 THEN FirstPrediction ELSE NoRequest]
  /\ InitCalls

NextCached ==
  \/ \E c \in Calls : CallPrediction(c)
  \/ \E c \in Calls : PredictionCacheCheck(c)
  \/ \E c \in Calls : AssetQuery(c)
  \/ \E c \in Calls : CacheCheck(c)
  \/ \E c \in Calls : YahooCall(c)
  \/ \E c \in Calls : StaleQuery(c)
  \/ \E c \in Calls : Upsert(c)
  \/ \E c \in Calls : OwnerResume(c)
  \/ \E c \in Calls : HistoryArrived(c)
  \/ \E c \in Calls : ModelCall(c)
  \/ \E c \in Calls : StorePrediction(c)
  \/ \E c \in Calls : tryStaleCache(c)
  \/ \E c \in Calls : PredictionOwnerResume(c)
  \/ Tick

SpecCached == InitCached /\ [][NextCached]_vars

---------------------------------------------------------------------------
(* Prediction requests against an ML service that may stall *)

StallingService == [RecentListing EXCEPT !.mlStalls = TRUE]

ModelRequests ==
  {PredictionRequest("AAPL", "6m", horizonToTTL("6m")),
   PredictionRequest("AAPL", "1y", horizonToTTL("1y")),
   NoRequest}

InitML ==
  /\ now = 0
  /\ adapterMocked = FALSE
  /\ upstream = StallingService
  /\ asset_price_history = {}
  /\ \/ assets = <<>> /\ asset_predictions = {}
     \/ /\ assets = <<[symbol |-> "AAPL", asset_type |-> "stocks"]>>
        /\ asset_predictions = seedPredictions(1, "6m")
  /\ req \in [Calls -> ModelRequests]
  /\ req[1] = FirstPrediction
  /\ \A c \in Calls \ {1, 2} : req[c] = NoRequest
  /\ InitCalls

\* The steps the program takes by itself.
NextMLProgram ==
  \/ \E c \in Calls : CallPrediction(c)
  \/ \E c \in Calls : PredictionCacheCheck(c)
  \/ \E c \in Calls : AssetQuery(c)
  \/ \E c \in Calls : CacheCheck(c)
  \/ \E c \in Calls : YahooCall(c)
  \/ \E c \in Calls : StaleQuery(c)
  \/ \E c \in Calls : Upsert(c)
  \/ \E c \in Calls : OwnerResume(c)
  \/ \E c \in Calls : JoinerResume(c)
  \/ \E c \in Calls : HistoryArrived(c)
  \/ \E c \in Calls : ModelCall(c)
  \/ \E c \in Calls : StorePrediction(c)
  \/ \E c \in Calls : tryStaleCache(c)
  \/ \E c \in Calls : PredictionOwnerResume(c)
  \/ \E c \in Calls : PredictionJoinerResume(c)

NextML == NextMLProgram \/ \E c \in Calls : BodyReadFails(c)

SpecML == InitML /\ [][NextML]_vars

\* The event loop runs every continuation whose await has settled, and every
\* query and every request the program issues is answered: each step of the
\* program that stays possible is taken in the end.  For StaleQuery and
\* Upsert weak fairness is written out with the condition under which the
\* step is possible.  Nothing in the program ends the read of a stalled
\* body, so BodyReadFails is not scheduled.
Scheduled(c) ==
  /\ WF_vars(CallPrediction(c)) /\ WF_vars(PredictionCacheCheck(c))
  /\ WF_vars(AssetQuery(c)) /\ WF_vars(CacheCheck(c)) /\ WF_vars(YahooCall(c))
  /\ ([]<>(comp[c].pc # "staleQuery") \/ []<><<StaleQuery(c)>>_vars)
  /\ ([]<>(comp[c].pc # "upsert") \/ []<><<Upsert(c)>>_vars)
  /\ WF_vars(OwnerResume(c)) /\ WF_vars(JoinerResume(c))
  /\ WF_vars(HistoryArrived(c)) /\ WF_vars(ModelCall(c))
  /\ WF_vars(StorePrediction(c)) /\ WF_vars(tryStaleCache(c))
  /\ WF_vars(PredictionOwnerResume(c)) /\ WF_vars(PredictionJoinerResume(c))

SpecMLFair == InitML /\ [][NextML]_vars /\ \A c \in Calls : Scheduled(c)

\* As SpecMLFair, and every request to the ML service returns in the end: a
\* stalled body read is ended from outside.
SpecMLReturns ==
  /\ InitML /\ [][NextML]_vars
  /\ \A c \in Calls : Scheduled(c) /\ WF_vars(BodyReadFails(c))

---------------------------------------------------------------------------
(* History requests that differ in the case of the symbol and in ttl *)

\* The age of the seeded rows lies between the two ttl values.
ShortTTL == 1800
LongTTL == 3600
SeedAge == 2000

TtlRequests ==
  {HistoryRequest("aapl", 6, "1mo", LongTTL),
   HistoryRequest("AAPL", 6, "1mo", LongTTL),
   HistoryRequest("AAPL", 6, "1mo", ShortTTL)}

InitTtl ==
  /\ now = 0
  /\ adapterMocked = FALSE
  /\ upstream = RecentListing
  /\ assets = <<[symbol |-> "AAPL", asset_type |-> "stocks"]>>
  /\ asset_price_history =
       {historyRow(1, Flat(itemDate("1mo", 6, k), 5), 0 - SeedAge) : k \in 1..6}
  /\ asset_predictions = {}
  /\ req \in [Calls -> TtlRequests \cup {NoRequest}]
  /\ \A c \in Calls : req[c] = NoRequest <=> c > 2
  /\ InitCalls

SpecTtl == InitTtl /\ [][Next]_vars

---------------------------------------------------------------------------
(* Repeated prediction requests against a model that may forecast below zero *)

UncheckedForecasts == [RecentListing EXCEPT !.mlBelowZero = TRUE]

InitRepeat ==
  /\ now = 0
  /\ adapterMocked = FALSE
  /\ upstream = UncheckedForecasts
  /\ assets = <<>>
  /\ asset_price_history = {}
  /\ asset_predictions = {}
  /\ \E second \in ModelRequests \ {NoRequest} :
       req = [c \in Calls |-> CASE c = 1 -> FirstPrediction
                                 [] c = 2 -> second
                                 [] OTHER -> NoRequest]
  /\ InitCalls

SpecRepeat == InitRepeat /\ [][NextMLProgram]_vars

---------------------------------------------------------------------------
(* Repeated history requests against an upstream that holds the whole span *)

RepeatedRequest == HistoryRequest("AAPL", 24, "1mo", intervalToTTL("1mo"))

\* Requests the controller refuses: daily granularity over a year or over
\* five years, a range and an interval outside the allowed sets, no symbol.
RefusedRequests ==
  {HistoryRequest("AAPL", 12, "1d", intervalToTTL("1d")),
   HistoryRequest("AAPL", 60, "1d", intervalToTTL("1d")),
   HistoryRequest("AAPL", 99, "1mo", intervalToTTL("1mo")),
   HistoryRequest("AAPL", 24, "5m", 0),
   HistoryRequest("", 24, "1mo", intervalToTTL("1mo"))}

InitSeq ==
  /\ now = 0
  /\ adapterMocked = FALSE
  /\ upstream = WholeListing
  /\ asset_predictions = {}
  /\ \/ assets = <<>> /\ asset_price_history = {}
     \/ /\ assets = <<[symbol |-> "AAPL", asset_type |-> "stocks"]>>
        /\ asset_price_history = seedRows(1, "1mo", 0, 24)
  /\ req \in [Calls -> RefusedRequests \cup {RepeatedRequest, NoRequest}]
  /\ req[1] = RepeatedRequest
  /\ req[2] # NoRequest
  /\ \A c \in Calls \ {1, 2} : req[c] = NoRequest
  /\ InitCalls

NextSeq ==
  \/ \E c \in Calls : CallHistory(c)
  \/ \E c \in Calls : RejectHistory(c)
  \/ \E c \in Calls : AssetQuery(c)
  \/ \E c \in Calls : CacheCheck(c)
  \/ \E c \in Calls : YahooCall(c)
  \/ \E c \in Calls : StaleQuery(c)
  \/ \E c \in Calls : Upsert(c)
  \/ \E c \in Calls : OwnerResume(c)
  \/ \E c \in Calls : JoinerResume(c)
  \/ Tick

SpecSeq == InitSeq /\ [][NextSeq]_vars

---------------------------------------------------------------------------
(* Request coalescing *)

\* C1: per key at most one computation is outstanding at any time, in the
\* history registry and in the prediction registry; a caller that joined does
\* no work of its own, so all callers attached to one promise cause together
\* at most one adapter call, and exactly one once the computation is past a
\* cache miss.
C1_SingleFlight ==
  /\ \A c1 \in Calls : \A c2 \in Calls \ {c1} :
       /\ (comp[c1].pc \notin {"none", "settled"} /\ comp[c2].pc \notin {"none", "settled"})
            => keyOf(hargs[c1]) # keyOf(hargs[c2])
       /\ (pcomp[c1].pc \notin {"none", "settled"} /\ pcomp[c2].pc \notin {"none", "settled"})
            => predictionKeyOf(pargs[c1]) # predictionKeyOf(pargs[c2])
       /\ (hpc[c1] # "idle" /\ hpc[c2] # "idle" /\ awaiting[c1] = awaiting[c2])
            => yahooCalls[c1] + yahooCalls[c2] <= 1
       /\ (ppc[c1] # "idle" /\ ppc[c2] # "idle" /\ pawaiting[c1] = pawaiting[c2])
            => mlCalls[c1] + mlCalls[c2] <= 1
  /\ \A c \in Calls :
       /\ yahooCalls[c] <= 1 /\ mlCalls[c] <= 1
       /\ awaiting[c] \notin {0, c} => (comp[c].pc = "none" /\ yahooCalls[c] = 0)
       /\ pawaiting[c] \notin {0, c} => (pcomp[c].pc = "none" /\ mlCalls[c] = 0)
       /\ comp[c].pc \in {"staleQuery", "upsert"} => yahooCalls[c] = 1
       /\ comp[c].pc = "settled" =>
            yahooCalls[c] = (IF comp[c].outcome.status = "ok"
                                /\ comp[c].outcome.value.source = "cache" THEN 0 ELSE 1)
       /\ pcomp[c].pc = "store" => mlCalls[c] = 1

\* A caller joined the history computation of another for the same key; both
\* have completed, after one adapter call by the owner and none by the joiner.
C1_Witness ==
  \E c1 \in Calls : \E c2 \in Calls \ {c1} :
    /\ hpc[c2] = "done" /\ awaiting[c2] = c1 /\ hpc[c1] = "done"
    /\ yahooCalls[c1] = 1 /\ yahooCalls[c2] = 0
    /\ keyOf(hargs[c1]) = keyOf(hargs[c2])

\* C2: a caller that joined an in-flight computation ends with the outcome of
\* that computation, the one its owner ends with (the same response or the
\* same error), and that computation was started for the joiner's own key.
C2_JoinersShareOutcome ==
  \A c \in Calls :
    /\ (hpc[c] = "done" /\ awaiting[c] # c) =>
         /\ hpc[awaiting[c]] = "done"
         /\ hresult[c] = hresult[awaiting[c]]
         /\ hresult[c] = comp[awaiting[c]].outcome
         /\ hresult[c].status # "pending"
         /\ getCacheKey(hargs[c].symbol, hargs[c].months, hargs[c].interval)
              = getCacheKey(hargs[awaiting[c]].symbol, hargs[awaiting[c]].months,
                            hargs[awaiting[c]].interval)
    /\ (ppc[c] = "done" /\ pawaiting[c] # c) =>
         /\ ppc[pawaiting[c]] = "done"
         /\ presult[c] = presult[pawaiting[c]]
         /\ presult[c] = pcomp[pawaiting[c]].outcome
         /\ presult[c].status # "pending"
         /\ getPredictionCacheKey(pargs[c].assetId, pargs[c].horizon)
              = getPredictionCacheKey(pargs[pawaiting[c]].assetId, pargs[pawaiting[c]].horizon)

\* A joiner of a history computation that was rejected holds the owner's error.
C2_Witness ==
  \E c \in Calls :
    /\ hpc[c] = "done" /\ awaiting[c] # c
    /\ hresult[c].status = "error"
    /\ hresult[awaiting[c]].status = "error"

\* C3: an entry of a registry belongs to a call that has not completed yet and
\* is filed under that call's key; the promise a completed call awaited is no
\* longer registered, after success and after failure; with no call in
\* progress both registries are empty.
C3_RegistryCleanup ==
  /\ \A k \in DOMAIN inflightRequests :
       hpc[inflightRequests[k]] = "owner" /\ keyOf(hargs[inflightRequests[k]]) = k
  /\ \A k \in DOMAIN inflightPredictions :
       ppc[inflightPredictions[k]] = "owner"
         /\ predictionKeyOf(pargs[inflightPredictions[k]]) = k
  /\ \A c \in Calls :
       /\ hpc[c] = "done" => \A k \in DOMAIN inflightRequests : inflightRequests[k] # awaiting[c]
       /\ ppc[c] = "done" => \A k \in DOMAIN inflightPredictions :
                                inflightPredictions[k] # pawaiting[c]
  /\ (\A c \in Calls : hpc[c] \in {"idle", "done"}) => inflightRequests = <<>>
  /\ (\A c \in Calls : ppc[c] \in {"idle", "done"}) => inflightPredictions = <<>>

\* Every call has completed, one history computation among them rejected, and
\* both registries are empty.
C3_Witness ==
  /\ \A c \in Calls : req[c].kind = "prediction" /\ ppc[c] = "done" /\ hpc[c] = "done"
  /\ \E c \in Calls : awaiting[c] = c /\ hresult[c].status = "error"
  /\ inflightRequests = <<>> /\ inflightPredictions = <<>>

\* C4: calls whose keys differ in symbol, months or interval never share a
\* computation: neither awaits the other's promise, and a call that no other
\* call shares its key with runs its own computation, which after a cache
\* miss has called the adapter once.
C4_KeysIsolate ==
  \A c1 \in Calls :
    LET differ(c2) == \/ toUpperCase(hargs[c1].symbol) # toUpperCase(hargs[c2].symbol)
                      \/ hargs[c1].months # hargs[c2].months
                      \/ hargs[c1].interval # hargs[c2].interval
    IN /\ \A c2 \in Calls \ {c1} :
            (hpc[c1] # "idle" /\ hpc[c2] # "idle" /\ differ(c2))
              => (awaiting[c1] # awaiting[c2] /\ awaiting[c1] # c2)
       /\ (hpc[c1] = "done" /\ \A c2 \in Calls \ {c1} : hpc[c2] # "idle" => differ(c2))
            => /\ awaiting[c1] = c1
               /\ hresult[c1] = comp[c1].outcome
               /\ yahooCalls[c1] = (IF hresult[c1].status = "ok"
                                       /\ hresult[c1].value.source = "cache" THEN 0 ELSE 1)

\* Two computations with different keys for the same asset are in their
\* upsert loops at once, each after its own adapter call.
C4_Witness ==
  \E c1 \in Calls : \E c2 \in Calls \ {c1} :
    /\ toUpperCase(hargs[c1].symbol) = toUpperCase(hargs[c2].symbol)
    /\ hargs[c1].months # hargs[c2].months
    /\ comp[c1].pc = "upsert" /\ comp[c2].pc = "upsert"
    /\ yahooCalls[c1] = 1 /\ yahooCalls[c2] = 1

---------------------------------------------------------------------------
(* Cache hit, stale fallback, symbol not found *)

C7_NotFoundIs404 ==
  \A c \in Calls :
    (comp[c].pc = "settled" /\ yahooCalls[c] = 1
       /\ ~comp[c].reply.throws /\ comp[c].reply.items = <<>>)
      => (comp[c].outcome.status = "error"
          /\ comp[c].outcome.message = "SYMBOL_NOT_FOUND"
          /\ httpStatus(comp[c].outcome) = 404)

---------------------------------------------------------------------------
(* Persistence *)

\* C8: asset_price_history never holds two rows for one (asset, period) and
\* asset_predictions never two for one (asset, horizon, date); a write for an
\* identity that is already present leaves exactly one row for it, carrying
\* the values just written, and leaves every other row as it was - also when
\* computations with different keys write overlapping periods concurrently.
C8_OneRowPerPeriod ==
  /\ [](/\ \A r1 \in asset_price_history : \A r2 \in asset_price_history :
             (r1.asset_id = r2.asset_id /\ r1.month = r2.month) => r1 = r2
        /\ \A r1 \in asset_predictions : \A r2 \in asset_predictions :
             (r1.asset_id = r2.asset_id /\ r1.prediction_horizon = r2.prediction_horizon
                /\ r1.prediction_date = r2.prediction_date) => r1 = r2)
  /\ [][/\ \A c \in Calls :
            (comp[c].pc = "upsert" /\ comp'[c] # comp[c]) =>
              LET p == comp[c].yahooData[comp[c].i]
                  same(r) == r.asset_id = comp[c].asset.id /\ r.month = p.date
              IN /\ {r \in asset_price_history' : same(r)}
                      = {[asset_id |-> comp[c].asset.id, month |-> p.date, open |-> p.open,
                          high |-> p.high, low |-> p.low, close |-> p.close,
                          volume |-> p.volume, currency |-> p.currency, fetched_at |-> now]}
                 /\ {r \in asset_price_history' : ~same(r)}
                      = {r \in asset_price_history : ~same(r)}
        /\ \A c \in Calls :
            (pcomp[c].pc = "store" /\ pcomp'[c] # pcomp[c]) =>
              LET p == pcomp[c].mlResult.predictions[pcomp[c].i]
                  same(r) == /\ r.asset_id = pargs[c].assetId
                             /\ r.prediction_horizon = pargs[c].horizon
                             /\ r.prediction_date = p.date
              IN /\ {r \in asset_predictions' : same(r)}
                      = {[asset_id |-> pargs[c].assetId, prediction_horizon |-> pargs[c].horizon,
                          prediction_date |-> p.date, predicted_close |-> p.predicted_close,
                          model_version |-> pcomp[c].mlResult.model_version,
                          fetched_at |-> now]}
                 /\ {r \in asset_predictions' : ~same(r)}
                      = {r \in asset_predictions : ~same(r)}]_vars

\* Two history computations with different keys for one asset are in their
\* upsert loops; both have written the same period at different prices, and
\* the one row of that period carries the price of one of them.
C8_Witness ==
  \E c1 \in Calls : \E c2 \in Calls \ {c1} :
    /\ comp[c1].pc = "upsert" /\ comp[c2].pc = "upsert"
    /\ keyOf(hargs[c1]) # keyOf(hargs[c2])
    /\ comp[c1].asset.id = comp[c2].asset.id
    /\ \E i \in 1..Len(comp[c1].upsertedRows) : \E j \in 1..Len(comp[c2].upsertedRows) :
         /\ comp[c1].upsertedRows[i].month = comp[c2].upsertedRows[j].month
         /\ comp[c1].upsertedRows[i].close # comp[c2].upsertedRows[j].close
         /\ comp[c2].upsertedRows[j] \in asset_price_history
         /\ Cardinality({r \in asset_price_history :
                           r.asset_id = comp[c1].asset.id
                             /\ r.month = comp[c1].upsertedRows[i].month}) = 1

\* C9: when the adapter's batch has points with a currency the store does
\* not allow and is sound otherwise, exactly those points are skipped, every
\* other point is persisted, and the call succeeds: with one such point among
\* MockBatchLen, MockBatchLen - 1 rows are persisted and returned.
C9_DisallowedCurrencySkipped ==
  \A c \in Calls :
    LET items == comp[c].reply.items
        disallowed(p) == p.currency \notin {"USD", "EUR"}
        sound(p) == /\ p.open >= 0 /\ p.high >= 0 /\ p.low >= 0 /\ p.close >= 0
                    /\ p.volume >= 0
                    /\ p.low <= p.high /\ p.low <= p.open /\ p.open <= p.high
                    /\ p.low <= p.close /\ p.close <= p.high
        kept == {i \in 1..Len(items) : ~disallowed(items[i])}
    IN (comp[c].pc = "settled" /\ yahooCalls[c] = 1 /\ ~comp[c].reply.throws
          /\ items # <<>> /\ \A i \in 1..Len(items) : sound(items[i]))
         => /\ comp[c].outcome.status = "ok"
            /\ comp[c].outcome.value.source = "yahoo"
            /\ comp[c].outcome.value.dataPoints = Cardinality(kept)
            /\ {<<r.month, r.close, r.currency>> : r \in asset_price_history}
                 = {<<items[i].date, items[i].close, items[i].currency>> : i \in kept}
            /\ Cardinality(asset_price_history) = Cardinality(kept)
            /\ (\E i \in 1..Len(items) : disallowed(items[i]))
                 => Cardinality(kept) = Len(items) - 1

\* A batch of 10 points, one of them in a disallowed currency, ended in
\* success with 9 rows persisted and 9 points returned.
C9_Witness ==
  \E c \in Calls :
    /\ hpc[c] = "done" /\ hresult[c].status = "ok"
    /\ Len(comp[c].reply.items) = 10
    /\ \E i \in 1..Len(comp[c].reply.items) : comp[c].reply.items[i].currency = "GBP"
    /\ hresult[c].value.dataPoints = 9
    /\ Cardinality(asset_price_history) = 9

---------------------------------------------------------------------------
(* Repeated requests: the cache over time *)

\* C11: a call for 24 months at interval 1mo whose adapter returned 24
\* points ends with source "yahoo" and 24 points.  A call with the same
\* arguments whose cache check runs after such a call has completed, less
\* than ttl after the cachedAt of that call's response, ends with source
\* "cache" and 24 points, and a call answered from the cache has made no
\* adapter call.
C11_SecondCallFromCache ==
  /\ [](\A c \in Calls :
         /\ (comp[c].pc = "settled" /\ yahooCalls[c] = 1
               /\ hargs[c].months = 24 /\ hargs[c].interval = "1mo"
               /\ ~comp[c].reply.throws /\ Len(comp[c].reply.items) = 24)
              => /\ comp[c].outcome.status = "ok"
                 /\ comp[c].outcome.value.source = "yahoo"
                 /\ comp[c].outcome.value.dataPoints = 24
         /\ (hresult[c].status = "ok" /\ hresult[c].value.source = "cache")
              => yahooCalls[c] = 0)
  /\ [][\A c2 \in Calls :
         (/\ comp[c2].pc = "cacheCheck" /\ comp'[c2].pc # "cacheCheck"
          /\ \E c1 \in Calls \ {c2} :
               /\ hpc[c1] = "done" /\ hargs[c1] = hargs[c2]
               /\ hargs[c1].months = 24 /\ hargs[c1].interval = "1mo"
               /\ hresult[c1].status = "ok" /\ hresult[c1].value.source = "yahoo"
               /\ hresult[c1].value.dataPoints = 24
               /\ now - hresult[c1].value.cachedAt < hargs[c2].ttl)
           => /\ comp'[c2].pc = "settled"
              /\ comp'[c2].outcome.status = "ok"
              /\ comp'[c2].outcome.value.source = "cache"
              /\ comp'[c2].outcome.value.dataPoints = 24
              /\ yahooCalls'[c2] = 0]_vars

\* One call fetched 24 points from the adapter, a later identical call was
\* answered with the same 24 points from the cache without an adapter call.
C11_Witness ==
  \E c1 \in Calls : \E c2 \in Calls \ {c1} :
    /\ hpc[c1] = "done" /\ hpc[c2] = "done" /\ awaiting[c2] = c2
    /\ hresult[c1].status = "ok" /\ hresult[c1].value.source = "yahoo"
    /\ hresult[c1].value.dataPoints = 24
    /\ hresult[c2].status = "ok" /\ hresult[c2].value.source = "cache"
    /\ hresult[c2].value.dataPoints = 24
    /\ hresult[c2].value.series = hresult[c1].value.series
    /\ yahooCalls[c1] = 1 /\ yahooCalls[c2] = 0

\* C12: when every persisted row of the span is older than the ttl the cache
\* check misses and the adapter is called; each point the adapter returned
\* is written over the row of its period with all its values and with
\* fetched_at = the time of the write; when the adapter returned the whole
\* span and the fetch took less than ttl, the rows in the store at the end
\* of the call satisfy the hit rule of an identical call.
C12_RefreshWhenStale ==
  [][\A c \in Calls :
       LET a == hargs[c]
           inSpan(table) == {r \in table : r.asset_id = comp[c].asset.id
                                            /\ r.month >= startDateOf(a.months)}
       IN /\ (/\ comp[c].pc = "cacheCheck" /\ comp'[c].pc # "cacheCheck"
               /\ \A r \in inSpan(asset_price_history) : now - r.fetched_at >= a.ttl)
               => comp'[c].pc = "yahoo"
          /\ (comp[c].pc = "upsert" /\ comp'[c] # comp[c]) =>
               LET p == comp[c].yahooData[comp[c].i]
               IN /\ [asset_id |-> comp[c].asset.id, month |-> p.date, open |-> p.open,
                       high |-> p.high, low |-> p.low, close |-> p.close,
                       volume |-> p.volume, currency |-> p.currency, fetched_at |-> now]
                        \in asset_price_history'
                  /\ Cardinality({r \in asset_price_history' :
                                     r.asset_id = comp[c].asset.id /\ r.month = p.date}) = 1
          /\ (/\ comp[c].pc = "upsert" /\ comp'[c].pc = "settled"
               /\ Len(comp[c].yahooData) = calculateExpectedPoints(a.months, a.interval))
               => /\ comp'[c].outcome.status = "ok"
                  /\ comp'[c].outcome.value.source = "yahoo"
                  /\ \A i \in 1..Len(comp[c].yahooData) :
                       \E r \in inSpan(asset_price_history') :
                         /\ r.month = comp[c].yahooData[i].date
                         /\ r.close = comp[c].yahooData[i].close
                         /\ r.fetched_at >= comp'[c].outcome.value.cachedAt
                  /\ now - comp'[c].outcome.value.cachedAt < a.ttl
                       => LET n == Cardinality({r \in inSpan(asset_price_history') :
                                                  now - r.fetched_at < a.ttl})
                          IN n > 0 /\ 100 * n >= 80 * calculateExpectedPoints(a.months, a.interval)
     ]_vars

\* A refresh is half way: twelve of the rows fetched a day ago have been
\* overwritten at a new price, the other twelve are still to be written.
C12_Witness ==
  \E c \in Calls :
    /\ comp[c].pc = "upsert" /\ comp[c].i = 13
    /\ Cardinality({r \in asset_price_history : r.fetched_at < 0 /\ r.close = 5}) = 12
    /\ Cardinality({r \in asset_price_history : r.fetched_at >= 0 /\ r.close = 7}) = 12

---------------------------------------------------------------------------
(* Validation in the market controller *)

\* C13: a history request with interval 1d and a range other than 6 months,
\* or with a range outside {6, 12, 24, 60} months, or with an interval outside
\* {1d, 1wk, 1mo}, never enters getAssetHistory: it has no arguments, no
\* frame, no registry entry and no adapter call, it is answered with status
\* 400, and the step that answers it leaves the store and the registry as
\* they were.
C13_RefusedBeforeAnyWork ==
  /\ [](\A c \in Calls :
         (/\ req[c].kind = "history"
          /\ \/ (req[c].interval = "1d" /\ req[c].months # 6)
             \/ req[c].months \notin {6, 12, 24, 60}
             \/ req[c].interval \notin {"1d", "1wk", "1mo"})
           => /\ hpc[c] \in {"idle", "rejected"}
              /\ hpc[c] = "rejected" => httpStatus(hresult[c]) = 400
              /\ hargs[c] = NoArgs /\ awaiting[c] = 0
              /\ comp[c].pc = "none" /\ yahooCalls[c] = 0
              /\ \A k \in DOMAIN inflightRequests : inflightRequests[k] # c)
  /\ [][\A c \in Calls :
         (hpc[c] # "rejected" /\ hpc'[c] = "rejected")
           => UNCHANGED <<assets, asset_price_history, inflightRequests, comp, yahooCalls>>]_vars

\* A request for a year of daily points was answered with 400 while another
\* call was in its upsert loop.
C13_Witness ==
  \E c \in Calls :
    /\ hpc[c] = "rejected" /\ req[c].interval = "1d" /\ req[c].months = 12
    /\ httpStatus(hresult[c]) = 400
    /\ \E o \in Calls \ {c} : comp[o].pc = "upsert" /\ inflightRequests # <<>>

---------------------------------------------------------------------------
(* The ML adapter and the prediction orchestrator *)

\* C14: getPrediction never throws.  Wherever a call is about to ask the
\* model, each way the request can fail (fetch rejects, no headers within the
\* timeout, a status outside 2xx, a body that is not JSON) makes getPrediction
\* return null, and with null the orchestrator goes on to the stale lookup;
\* and no step out of the model call leaves the orchestrator anywhere but in
\* the stale lookup, in the store loop, with a response, or still reading
\* the body.
C14_AdapterFailureIsNull ==
  /\ [](\A c \in Calls :
         pcomp[c].pc = "model"
           => \A reply \in MLReplies :
                reply.kind \in MLFailureKinds
                  => /\ getPrediction(reply) = MLFailed
                     /\ afterModel(pcomp[c], pargs[c], getPrediction(reply), now).pc
                          = "staleQuery")
  /\ [][\A c \in Calls :
         (pcomp[c].pc = "model" /\ pcomp'[c].pc # "model")
           => /\ pcomp'[c].pc \in {"staleQuery", "store", "settled", "modelBody"}
              /\ pcomp'[c].pc = "settled" => pcomp'[c].outcome.status = "ok"
              /\ pcomp'[c].pc = "staleQuery" => pcomp'[c].outcome = PendingPrediction
     ]_vars

\* A call asked the model once and is now in the stale lookup, with old
\* predictions in the store.
C14_Witness ==
  \E c \in Calls :
    /\ pcomp[c].pc = "staleQuery" /\ mlCalls[c] = 1
    /\ hresult[c].status = "ok"
    /\ asset_predictions # {}

\* C15: every call of the prediction adapter returns in the end: a call that
\* has asked the model does not stay in the request for ever, at whatever
\* stage the service stops answering (before the headers or during the
\* body).
C15_AdapterCallReturns ==
  \A c \in Calls :
    (pcomp[c].pc \in {"model", "modelBody"}) ~> (pcomp[c].pc \notin {"model", "modelBody"})

\* What the scheduling does guarantee: every prediction call is answered
\* unless some call is left reading a stalled body.
PredictionAnsweredUnlessStalled ==
  \A c \in Calls :
    (ppc[c] # "idle") ~> (ppc[c] = "done" \/ \E d \in Calls : pcomp[d].pc = "modelBody")

\* C16: after a cache miss, a history fetch that throws, and a model call
\* that yields null or a body without predictions, lead to the stale lookup;
\* the stale lookup answers with a response of source stale_cache and a
\* non-empty warning (status 200) when the store holds any prediction row of
\* the asset and horizon, whatever its age, and with null (status 503) only
\* when it holds none.
C16_PredictionStaleFallback ==
  [][\A c \in Calls :
       /\ (/\ pcomp[c].pc = "history" /\ pcomp'[c].pc # "history"
           /\ hresult[c].status = "error")
            => pcomp'[c].pc = "staleQuery"
       /\ (/\ pcomp[c].pc \in {"model", "modelBody"}
           /\ pcomp'[c].pc \notin {"model", "modelBody", "store"}
           /\ pcomp'[c].outcome.status # "ok")
            => pcomp'[c].pc = "staleQuery"
       /\ (pcomp[c].pc = "staleQuery" /\ pcomp'[c].pc # "staleQuery")
            => LET held == {r \in asset_predictions :
                              /\ r.asset_id = pargs[c].assetId
                              /\ r.prediction_horizon = pargs[c].horizon}
                   out == pcomp'[c].outcome
               IN /\ pcomp'[c].pc = "settled"
                  /\ held # {}
                       => /\ out.status = "ok" /\ predictionHttpStatus(out) = 200
                          /\ out.value.source = "stale_cache"
                          /\ out.value.warning # ""
                          /\ Len(out.value.predictions) = Cardinality(held)
                  /\ held = {} => out = ReturnedNull /\ predictionHttpStatus(out) = 503
  ]_vars

\* A call whose model call failed was answered from predictions fetched a
\* day ago, and another whose history fetch failed was answered in the
\* same run.
C16_Witness ==
  /\ \E c \in Calls :
       /\ pcomp[c].pc = "settled" /\ mlCalls[c] = 1
       /\ pcomp[c].outcome.status = "ok"
       /\ pcomp[c].outcome.value.source = "stale_cache"
       /\ now - pcomp[c].outcome.value.cachedAt >= 86400
  /\ \E c \in Calls :
       /\ pcomp[c].pc = "settled" /\ mlCalls[c] = 0
       /\ hresult[c].status = "error"

\* C17: when the history holds fewer than 6 observations the prediction
\* request ends with null (status 503) at once: the model is not called and
\* the stale lookup is not entered, even when the store holds predictions of
\* the asset and horizon.
C17_InsufficientHistoryIsNull ==
  [][\A c \in Calls :
       (/\ pcomp[c].pc = "history" /\ pcomp'[c].pc # "history"
        /\ hresult[c].status = "ok"
        /\ Len(hresult[c].value.series) < 6)
         => /\ pcomp'[c].pc = "settled"
            /\ pcomp'[c].outcome = ReturnedNull
            /\ predictionHttpStatus(pcomp'[c].outcome) = 503
            /\ mlCalls'[c] = 0
            /\ UNCHANGED asset_predictions
  ]_vars

\* A history of fewer than 6 points ended a request with null although
\* predictions of its asset and horizon were in the store.
C17_Witness ==
  \E c \in Calls :
    /\ pcomp[c].pc = "settled" /\ pcomp[c].outcome = ReturnedNull
    /\ hresult[c].status = "ok"
    /\ Len(hresult[c].value.series) \in 1..5
    /\ mlCalls[c] = 0
    /\ \E r \in asset_predictions :
         r.asset_id = pargs[c].assetId /\ r.prediction_horizon = pargs[c].horizon

---------------------------------------------------------------------------
(* What reaches the callers *)

C19_CurrentPriceIsLastClose ==
  \A c \in Calls :
    (hpc[c] = "done" /\ hresult[c].status = "ok")
      => LET series == hresult[c].value.series
         IN IF series = <<>>
            THEN hresult[c].value.currentPrice = NullNum
            ELSE hresult[c].value.currentPrice = series[Len(series)].close

---------------------------------------------------------------------------
(* Completion and effort of one call *)

\* C21: when every store operation and every adapter call returns in the
\* end, every getAssetPrediction call and every getAssetHistory call
\* completes; a caller that joined an in-flight computation can complete as
\* soon as the owner of that computation has, whether or not the registry
\* still holds the entry.
C21_EveryCallCompletes ==
  /\ \A c \in Calls : (req[c].kind = "prediction") ~> (ppc[c] = "done")
  /\ \A c \in Calls : (hpc[c] \in {"owner", "joined"}) ~> (hpc[c] = "done")
  /\ \A c \in Calls : (ppc[c] \in {"owner", "joined"}) ~> (ppc[c] = "done")
  /\ [](\A c \in Calls :
         /\ (hpc[c] = "joined" /\ hpc[awaiting[c]] = "done") => ENABLED JoinerResume(c)
         /\ (ppc[c] = "joined" /\ ppc[pawaiting[c]] = "done")
              => ENABLED PredictionJoinerResume(c))

\* A call that had joined the history computation of another call is done
\* after the registry entry was removed.
C21_Witness ==
  \E c \in Calls :
    /\ hpc[c] = "done" /\ awaiting[c] # c /\ awaiting[c] # 0
    /\ ppc[c] = "done"
    /\ inflightRequests = <<>>

C23_ReadPathsWriteNothing ==
  /\ [](\A c \in Calls :
         (comp[c].pc = "settled" /\ comp[c].outcome.status = "ok")
           => /\ comp[c].outcome.value.source = "cache"
                   => yahooCalls[c] = 0 /\ comp[c].upsertedRows = <<>>
              /\ comp[c].outcome.value.source = "stale_cache"
                   => /\ comp[c].upsertedRows = <<>>
                      /\ getHistoricalData(adapterMocked, comp[c].reply).throws)
  /\ [][/\ asset_price_history' # asset_price_history
            => \E c \in Calls :
                 /\ comp[c].pc = "upsert" /\ comp'[c] # comp[c]
                 /\ yahooCalls[c] = 1 /\ ~comp[c].reply.throws
                 /\ comp[c].reply.items # <<>>
        /\ \A c \in Calls :
             (/\ comp[c].pc \in {"cacheCheck", "staleQuery"}
              /\ comp'[c].pc = "settled")
               => UNCHANGED asset_price_history
     ]_vars

\* One call was answered from rows fetched a day ago after its adapter call
\* failed, a later one from the same rows again, and the store still holds
\* the 24 rows with the fetched_at of a day ago.
C23_Witness ==
  /\ \E c \in Calls :
       /\ hpc[c] = "done" /\ hresult[c].status = "ok"
       /\ hresult[c].value.source = "stale_cache"
  /\ Cardinality(asset_price_history) = 24
  /\ \A r \in asset_price_history : r.fetched_at = 0 - 86400
  /\ \A c \in Calls : req[c].kind = "history" => hpc[c] \in {"done", "rejected"}

---------------------------------------------------------------------------
(* The prediction cache *)

\* C24: the cache check of a prediction request ends as a hit (a response
\* with source "cache", no history call, no model call) exactly when the
\* store holds at least one prediction row of the requested asset and
\* horizon with fetched_at > now - ttl; rows of other horizons or of other
\* assets do not count.
C24_PredictionCacheHitRule ==
  /\ [](\A c \in Calls :
         (pcomp[c].pc = "settled" /\ pcomp[c].outcome.status = "ok"
            /\ pcomp[c].outcome.value.source = "cache")
           => mlCalls[c] = 0 /\ yahooCalls[c] = 0 /\ hpc[c] = "idle")
  /\ [][\A c \in Calls :
         (pcomp[c].pc = "cacheCheck" /\ pcomp'[c] # pcomp[c])
           => LET fresh == {r \in asset_predictions :
                              /\ r.asset_id = pargs[c].assetId
                              /\ r.prediction_horizon = pargs[c].horizon
                              /\ r.fetched_at > now - pargs[c].ttl}
              IN IF fresh # {}
                 THEN /\ pcomp'[c].pc = "settled"
                      /\ pcomp'[c].outcome.status = "ok"
                      /\ pcomp'[c].outcome.value.source = "cache"
                      /\ Len(pcomp'[c].outcome.value.predictions) = Cardinality(fresh)
                      /\ hpc'[c] = "idle"
                 ELSE /\ pcomp'[c].pc = "history"
                      /\ hpc'[c] # "idle"
     ]_vars

\* A request for AAPL at 6 months missed the cache and called the model
\* although the store held forecasts of AAPL for that horizon stored exactly
\* one ttl before, fresh ones of AAPL for another horizon and fresh ones of
\* another asset.
C24_Witness ==
  \E c \in Calls :
    /\ pargs[c].assetId = 1 /\ pargs[c].horizon = "6m"
    /\ mlCalls[c] = 1
    /\ \E r \in asset_predictions :
         /\ r.asset_id = 1 /\ r.prediction_horizon = "6m"
         /\ r.fetched_at = now - pargs[c].ttl
    /\ \E r \in asset_predictions :
         r.asset_id = 1 /\ r.prediction_horizon = "1y" /\ r.fetched_at > now - pargs[c].ttl
    /\ \E r \in asset_predictions :
         r.asset_id = 2 /\ r.prediction_horizon = "6m" /\ r.fetched_at > now - pargs[c].ttl

---------------------------------------------------------------------------
(* What the point rows hold *)

\* C25: the series of a history response whose interval is g holds only
\* points that an adapter call made with interval g returned: each of its
\* points has the date and the close of an item that some computation with
\* interval g received from the adapter (the store is empty at the start).
C25_SeriesOfRequestedInterval ==
  \A c \in Calls :
    (hpc[c] = "done" /\ hresult[c].status = "ok")
      => \A i \in 1..Len(hresult[c].value.series) :
           \E d \in Calls :
             /\ hargs[d].interval = hargs[c].interval
             /\ yahooCalls[d] = 1
             /\ \E k \in 1..Len(comp[d].reply.items) :
                  /\ comp[d].reply.items[k].date = hresult[c].value.series[i].date
                  /\ comp[d].reply.items[k].close = hresult[c].value.series[i].close

---------------------------------------------------------------------------
(* What a prediction response rests on *)

\* C27: a prediction response with source "cache" holds every point of the
\* model run that stored the rows it was read from: it has as many points
\* as the response of source "ml_service" that an earlier call for the same
\* asset and horizon returned (the store is empty at the start and at most
\* one model run precedes the cache hit).
C27_CacheHoldsWholeRun ==
  \A c \in Calls : \A d \in Calls :
    (/\ ppc[c] = "done" /\ ppc[d] = "done"
     /\ pargs[c].assetId = pargs[d].assetId /\ pargs[c].horizon = pargs[d].horizon
     /\ presult[c].status = "ok" /\ presult[c].value.source = "cache"
     /\ presult[d].status = "ok" /\ presult[d].value.source = "ml_service")
      => presult[c].value.predictions = presult[d].value.predictions

\* C28: a prediction response with source "ml_service" and no warning is
\* never built on degraded input: the history the call obtained for the
\* model did not come from the stale fallback.
C28_FreshPredictionOnFreshHistory ==
  \A c \in Calls :
    (/\ ppc[c] = "done" /\ presult[c].status = "ok"
     /\ presult[c].value.source = "ml_service"
     /\ presult[c].value.warning = "")
      => ~(/\ hresult[c].status = "ok"
           /\ hresult[c].value.source = "stale_cache")

\* C29: history calls that differ only in the letter case of the symbol or
\* only in ttl have one in-flight key: while one of them is in flight the
\* other joins it, so at most one of them owns a computation at a time, and
\* the joiner receives the owner's outcome, computed with the owner's ttl:
\* the response carries the owner's ttl, and it is a cache hit exactly when
\* the stored rows are fresh under the owner's ttl.
C29_JoinerGetsFirstCallersResponse ==
  /\ \A c \in Calls : \A d \in Calls :
       (hpc[c] # "idle" /\ hpc[d] # "idle") => keyOf(hargs[c]) = keyOf(hargs[d])
  /\ Cardinality({c \in Calls : hpc[c] = "owner"}) <= 1
  /\ \A c \in Calls :
       (hpc[c] = "done" /\ awaiting[c] # c) =>
         /\ hresult[c] = comp[awaiting[c]].outcome
         /\ hresult[c] = hresult[awaiting[c]]
         /\ hresult[c].status = "ok" => hresult[c].value.ttl = hargs[awaiting[c]].ttl
         /\ (hresult[c].status = "ok" /\ hresult[c].value.source = "cache")
              <=> hargs[awaiting[c]].ttl > SeedAge

C29_Witness ==
  \E c \in Calls :
    /\ hpc[c] = "done" /\ awaiting[c] # c
    /\ hargs[c].symbol # hargs[awaiting[c]].symbol
    /\ hargs[c].ttl = ShortTTL /\ hargs[awaiting[c]].ttl = LongTTL
    /\ hresult[c].status = "ok" /\ hresult[c].value.source = "cache"
    /\ hresult[c].value.ttl = LongTTL

---------------------------------------------------------------------------
(* Prediction requests for one asset and two horizons *)

\* Calls c and d are prediction calls for the same asset with different
\* horizons, both in flight.
ConcurrentPair(c, d) ==
  /\ c # d
  /\ ppc[c] \notin {"idle", "done"} /\ ppc[d] \notin {"idle", "done"}
  /\ pargs[c].assetId = pargs[d].assetId
  /\ pargs[c].horizon # pargs[d].horizon

\* C30 as stated: while two prediction calls for the same asset with
\* different horizons are in flight together, the history upstream has been
\* called at most once for the pair.
C30_HistoryUpstreamOncePerPair ==
  \A c \in Calls : \A d \in Calls :
    ConcurrentPair(c, d) => yahooCalls[c] + yahooCalls[d] <= 1

\* C30: two prediction calls for the same asset with different horizons are
\* never coalesced with each other, and each one that answers from the model
\* made its own model call.  Their history requests have one key, so at most
\* one of them owns a history computation at a time; a call whose history
\* request joined the other's computation made no upstream call, and the
\* computation it joined made at most one.
C30_HistorySharedWhileInFlight ==
  /\ \A c \in Calls : \A d \in Calls :
       ConcurrentPair(c, d) => ppc[c] = "owner" /\ ppc[d] = "owner"
  /\ \A c \in Calls :
       (ppc[c] = "done" /\ pawaiting[c] = c /\ presult[c].status = "ok"
        /\ presult[c].value.source = "ml_service") => mlCalls[c] = 1
  /\ Cardinality({c \in Calls : hpc[c] = "owner"}) <= 1
  /\ \A d \in Calls :
       (hpc[d] \in {"joined", "done"} /\ awaiting[d] # d) =>
         yahooCalls[d] = 0 /\ yahooCalls[awaiting[d]] <= 1

C30_Witness ==
  \E c \in Calls : \E d \in Calls :
    /\ c # d
    /\ ppc[c] = "done" /\ ppc[d] = "done"
    /\ pargs[c].horizon # pargs[d].horizon
    /\ presult[c].status = "ok" /\ presult[c].value.source = "ml_service"
    /\ presult[d].status = "ok" /\ presult[d].value.source = "ml_service"
    /\ mlCalls[c] = 1 /\ mlCalls[d] = 1
    /\ awaiting[d] = c
    /\ yahooCalls[c] + yahooCalls[d] = 1

====
